---- MODULE Spec2Model ----
(***************************************************************************)
(* Network Topology Visualizer (src/visualizer.py).                        *)
(*                                                                         *)
(* load_network -> build_graph -> compute_shortest_path ->                 *)
(* visualize_static -> visualize_interactive, as run by main(); and        *)
(* build_graph / compute_shortest_path called on their own.                *)
(*                                                                         *)
(* JSON numbers are modelled by integers, the graph by the two insertion-  *)
(* ordered dictionaries networkx keeps for it (nodes, adjacency), and      *)
(* nx.dijkstra_path / nx.dijkstra_path_length by the heap loop they run.   *)
(***************************************************************************)
EXTENDS Integers, Sequences, FiniteSets, TLC

VARIABLES pc, args, file, data, G, src, tgt, res, calls, exit, files, hilite,
          data2, G2, res2

vars == <<pc, args, file, data, G, src, tgt, res, calls, exit, files, hilite,
          data2, G2, res2>>

-----------------------------------------------------------------------------
(* Bounds of the inputs *)

\* longest device list of an input file
MaxDevices == 2

\* longest connection list of an input file that main() is run on
MaxRunConns == 1

\* longest connection list handed to build_graph on its own
MaxConns == 2

\* most connections of a topology handed to the path finder
MaxEdges == 3

\* largest weight a connection row carries
MaxWeight == 3

\* largest amount a weight is raised by when two topologies are compared
MaxRaise == 1

\* the names in the topologies handed to the path finder
Names == {"A", "B", "C"}

NameOrder == <<"A", "B", "C">>

\* the names in the files main() and build_graph are run on, whose rows
\* come in every order and orientation
FewNames == {"A", "B"}

\* JSON numbers a connection row may carry as its weight
RawWeights == (-1)..MaxWeight

\* args.source / args.target when the option is not given (default=None)
NoArg == "<None>"

-----------------------------------------------------------------------------
(* Sequences *)

SeqsUpTo(S, n) == UNION {[1..k -> S] : k \in 0..n}

Range(s) == {s[i] : i \in 1..Len(s)}

Last(s) == s[Len(s)]

Put(f, k, v) == (k :> v) @@ f

EmptyMap == [x \in {} |-> 0]

-----------------------------------------------------------------------------
(* The graph: networkx.Graph as build_graph uses it *)

\* G = nx.Graph()
EmptyGraph == [nodes |-> <<>>, adj |-> EmptyMap]

\* source in G
HasNode(g, n) == n \in DOMAIN g.adj

AddNodeDup(g, n) ==
    [nodes |-> Append(g.nodes, n), adj |-> Put(g.adj, n, <<>>)]

\* G.add_node(d): a node already present is left where it is
AddNode(g, n) ==
    IF HasNode(g, n) THEN g
    ELSE [nodes |-> Append(g.nodes, n), adj |-> Put(g.adj, n, <<>>)]

\* adj[u][v] = {"weight": w}: an existing key keeps its place in the dict
SetNbr(row, v, w) ==
    IF \E i \in 1..Len(row) : row[i][1] = v
    THEN [i \in 1..Len(row) |-> IF row[i][1] = v THEN <<v, w>> ELSE row[i]]
    ELSE Append(row, <<v, w>>)

AddEdgeKeepFirst(g, u, v, w) ==
    LET g1 == AddNode(AddNode(g, u), v)
    IN  IF \E i \in 1..Len(g1.adj[u]) : g1.adj[u][i][1] = v
        THEN g1
        ELSE LET g2 == [g1 EXCEPT !.adj[u] = SetNbr(@, v, w)]
             IN  [g2 EXCEPT !.adj[v] = SetNbr(@, u, w)]

\* G.add_edge(u, v, weight=w): both endpoints become nodes, and the one
\* attribute dict is stored under adj[u][v] and adj[v][u]
AddEdge(g, u, v, w) ==
    LET g1 == AddNode(AddNode(g, u), v)
        g2 == [g1 EXCEPT !.adj[u] = SetNbr(@, v, w)]
    IN  [g2 EXCEPT !.adj[v] = SetNbr(@, u, w)]

\* float(conn[2]): exact on the JSON numbers drawn here (|w| < 2^53)
Float(w) == w

EdgeWeightDefaultZero(conn) == IF Len(conn) >= 3 THEN Float(conn[3]) ELSE 0

\* w = float(conn[2]) if len(conn) >= 3 else 1.0
EdgeWeight(conn) == IF Len(conn) >= 3 THEN Float(conn[3]) ELSE 1

\* data.get(key, [])
Get(d, key) == IF key \in d.keys THEN d[key] ELSE <<>>

RECURSIVE AddDevices(_, _, _)
\* for d in data.get("devices", []): G.add_node(d)
AddDevices(g, devs, i) ==
    IF i > Len(devs) THEN g
    ELSE AddDevices(AddNode(g, devs[i]), devs, i + 1)

RECURSIVE AddConnections(_, _, _)
\* for conn in data.get("connections", []): ...
AddConnections(g, conns, i) ==
    IF i > Len(conns) THEN g
    ELSE LET conn == conns[i]
         IN  IF Len(conn) < 2
             THEN AddConnections(g, conns, i + 1)
             ELSE AddConnections(
                      AddEdge(g, conn[1], conn[2], EdgeWeight(conn)),
                      conns, i + 1)

\* build_graph(data)
build_graph(d) ==
    AddConnections(AddDevices(EmptyGraph, Get(d, "devices"), 1),
                   Get(d, "connections"), 1)

Adjacent(g, u, v) ==
    /\ u \in DOMAIN g.adj
    /\ \E i \in 1..Len(g.adj[u]) : g.adj[u][i][1] = v

\* G.edges(): the unordered pairs that are adjacent
Edges(g) ==
    {e \in {{u, v} : u, v \in DOMAIN g.adj} : \E u, v \in e : Adjacent(g, u, v)}

\* G[u][v]["weight"]
Weight(g, u, v) ==
    LET i == CHOOSE j \in 1..Len(g.adj[u]) : g.adj[u][j][1] = v
    IN  g.adj[u][i][2]

-----------------------------------------------------------------------------
(* nx.dijkstra_path / nx.dijkstra_path_length (weight="weight") *)

\* heappop(fringe): the least (distance, counter, node)
HeapMin(fringe) ==
    CHOOSE e \in fringe :
        \A f \in fringe : e[1] < f[1] \/ (e[1] = f[1] /\ e[2] <= f[2])

VuDistLastEdge(dv, cost) == cost

\* vu_dist = dist[v] + cost
VuDist(dv, cost) == dv + cost

ShouldRelaxUnseen(seen, u, vu_dist) == u \notin DOMAIN seen

\* elif u not in seen or vu_dist < seen[u]
ShouldRelax(seen, u, vu_dist) ==
    u \notin DOMAIN seen \/ vu_dist < seen[u]

RECURSIVE RelaxAll(_, _, _, _)
\* for u, e in G_succ[v].items(): the neighbours of v in insertion order
RelaxAll(st, adjv, v, i) ==
    IF i > Len(adjv) \/ st.err THEN st
    ELSE LET u == adjv[i][1]
             vu_dist == VuDist(st.dist[v], adjv[i][2])
             st2 ==
                 IF u \in DOMAIN st.dist
                 THEN IF vu_dist < st.dist[u]
                      THEN [st EXCEPT !.err = TRUE]   \* ValueError
                      ELSE st
                 ELSE IF ShouldRelax(st.seen, u, vu_dist)
                      THEN [st EXCEPT
                               !.seen = Put(@, u, vu_dist),
                               !.fringe = @ \cup {<<vu_dist, st.c, u>>},
                               !.c = @ + 1,
                               !.paths = Put(@, u, Append(st.paths[v], u))]
                      ELSE st
         IN  RelaxAll(st2, adjv, v, i + 1)

RECURSIVE DijkstraLoop(_, _, _)
\* while fringe: pop, settle, stop at the target, relax the neighbours
DijkstraLoop(g, st, target) ==
    IF st.fringe = {} \/ st.err THEN st
    ELSE LET top == HeapMin(st.fringe)
             v == top[3]
             rest == [st EXCEPT !.fringe = @ \ {top}]
         IN  IF v \in DOMAIN st.dist
             THEN DijkstraLoop(g, rest, target)
             ELSE LET fin == [rest EXCEPT !.dist = Put(@, v, top[1])]
                  IN  IF v = target THEN fin
                      ELSE DijkstraLoop(g, RelaxAll(fin, g.adj[v], v, 1), target)

\* _dijkstra_multisource(G, {source}, weight, paths=..., target=target)
Dijkstra(g, source, target) ==
    DijkstraLoop(g,
                 [dist |-> EmptyMap,
                  seen |-> Put(EmptyMap, source, 0),
                  paths |-> Put(EmptyMap, source, <<source>>),
                  fringe |-> {<<0, 0, source>>},
                  c |-> 1,
                  err |-> FALSE],
                 target)

Outcome(ret, path, cost) == [ret |-> ret, path |-> path, cost |-> cost]

NoResult == Outcome("none", <<>>, 0)

Raised(e) == Outcome(e, <<>>, 0)

DijkstraPathNoTrivial(g, source, target) ==
    LET st == Dijkstra(g, source, target)
    IN  IF source = target THEN Raised("NetworkXNoPath")
        ELSE IF st.err THEN Raised("ValueError")
        ELSE IF target \in DOMAIN st.dist
             THEN Outcome("path", st.paths[target], st.dist[target])
             ELSE Raised("NetworkXNoPath")

\* path = nx.dijkstra_path(G, source, target); cost =
\* nx.dijkstra_path_length(G, source, target): the same search twice, so one
\* outcome: the path and its length, NetworkXNoPath, or the ValueError
\* ("Contradictory paths found: negative weights?")
DijkstraPath(g, source, target) ==
    LET st == Dijkstra(g, source, target)
    IN  IF source = target THEN Outcome("path", <<target>>, 0)
        ELSE IF st.err THEN Raised("ValueError")
        ELSE IF target \in DOMAIN st.dist
             THEN Outcome("path", st.paths[target], st.dist[target])
             ELSE Raised("NetworkXNoPath")

compute_shortest_path_unguarded(g, source, target) ==
    IF ~HasNode(g, source) THEN Raised("NodeNotFound")
    ELSE LET r == DijkstraPath(g, source, target)
         IN  IF r.ret = "NetworkXNoPath" THEN NoResult ELSE r

\* compute_shortest_path(G, source, target)
compute_shortest_path(g, source, target) ==
    IF ~HasNode(g, source) \/ ~HasNode(g, target) THEN NoResult
    ELSE LET r == DijkstraPath(g, source, target)
         IN  IF r.ret = "NetworkXNoPath" THEN NoResult ELSE r

-----------------------------------------------------------------------------
(* Inputs *)

Keys == {"devices", "connections"}

\* a parsed JSON object: the keys it has, and the two lists
Object(keys, devices, connections) ==
    [keys |-> keys, devices |-> devices, connections |-> connections]

\* connection rows over the names S: too short, [u, v], [u, v, w]
Rows(S) ==
    {<<>>} \cup {<<u>> : u \in S}
    \cup {<<u, v>> : u, v \in S}
    \cup {<<u, v, w>> : u, v \in S, w \in RawWeights}

\* the unordered pairs of names in a fixed order, self-loops last
Slots ==
    <<<<"A", "B">>, <<"A", "C">>, <<"B", "C">>,
      <<"A", "A">>, <<"B", "B">>, <<"C", "C">>>>

\* the slots of the pairs of two names
PairSlots == (Cardinality(Names) * (Cardinality(Names) - 1)) \div 2

RECURSIVE SlotRows(_, _, _)
\* the rows [u, v, f[i]] of the slots i in S, in the order of the slots
SlotRows(S, f, i) ==
    IF i > Len(Slots) THEN <<>>
    ELSE (IF i \in S THEN <<<<Slots[i][1], Slots[i][2], f[i]>>>> ELSE <<>>)
         \o SlotRows(S, f, i + 1)

\* the sets of at most MaxEdges of the first n slots
EdgeSets(n) == {T \in SUBSET (1..n) : Cardinality(T) <= MaxEdges}

\* what an input file is: there or not, JSON or not, and the parsed value
File(exists, valid, shape, value) ==
    [exists |-> exists, valid |-> valid, shape |-> shape, value |-> value]

NoObject == Object({}, <<>>, <<>>)

\* the files that are no JSON object with both keys
OtherFiles ==
    {File(FALSE, FALSE, "none", NoObject),          \* no such file
     File(TRUE, FALSE, "none", NoObject),           \* not JSON
     File(TRUE, TRUE, "scalar", NoObject),          \* a number, true, null
     File(TRUE, TRUE, "array", NoObject),           \* a list without the names
     File(TRUE, TRUE, "array", Object(Keys, <<>>, <<>>))}  \* ["devices", "connections"]
    \cup {File(TRUE, TRUE, "object", Object(k, <<>>, <<>>)) :
             k \in (SUBSET Keys) \ {Keys}}

\* {"devices": d, "connections": c}
ObjectFile(d, c) == File(TRUE, TRUE, "object", Object(Keys, d, c))

Args ==
    [source : FewNames \cup {NoArg}, target : FewNames \cup {NoArg},
     save_static : BOOLEAN]

NoArgs == [source |-> NoArg, target |-> NoArg, save_static |-> FALSE]

NoFile == File(FALSE, FALSE, "none", NoObject)

-----------------------------------------------------------------------------
(* load_network *)

KeysMissingBoth(d) == "devices" \notin d.keys /\ "connections" \notin d.keys

\* if "devices" not in data or "connections" not in data
KeysMissing(d) == "devices" \notin d.keys \/ "connections" \notin d.keys

\* load_network(file_path): "ok", or how it ends the run
load_network(f) ==
    IF ~f.exists THEN "exit"                        \* FileNotFoundError
    ELSE IF ~f.valid THEN "exit"                    \* json.JSONDecodeError
    ELSE IF f.shape = "scalar" THEN "TypeError"     \* "devices" in 5
    ELSE IF KeysMissing(f.value) THEN "exit"
    ELSE "ok"

-----------------------------------------------------------------------------
(* main() *)

Init ==
    /\ pc = "start"
    /\ args \in Args
    /\ \/ file \in OtherFiles
       \/ \E d \in SeqsUpTo(FewNames, MaxDevices),
             c \in SeqsUpTo(Rows(FewNames), MaxRunConns) :
              file = ObjectFile(d, c)
    /\ data = NoObject
    /\ G = EmptyGraph
    /\ src = NoArg
    /\ tgt = NoArg
    /\ res = NoResult
    /\ calls = <<>>
    /\ exit = -1
    /\ files = {}
    /\ hilite = <<>>
    /\ data2 = NoObject
    /\ G2 = EmptyGraph
    /\ res2 = NoResult

\* data = load_network(args.file)
LoadNetwork ==
    /\ pc = "start"
    /\ calls' = Append(calls, "load_network")
    /\ IF load_network(file) = "ok"
       THEN /\ data' = file.value
            /\ pc' = IF file.shape = "object" THEN "loaded" ELSE "loaded_list"
            /\ exit' = exit
       ELSE /\ data' = data
            /\ pc' = "exited"
            /\ exit' = 1
    /\ UNCHANGED <<args, file, G, src, tgt, res, files, hilite, data2, G2, res2>>

\* G = build_graph(data) on a list: data.get raises AttributeError
BuildGraphOfList ==
    /\ pc = "loaded_list"
    /\ calls' = Append(calls, "build_graph")
    /\ pc' = "exited"
    /\ exit' = 1
    /\ UNCHANGED <<args, file, data, G, src, tgt, res, files, hilite,
                   data2, G2, res2>>

\* G = build_graph(data)
BuildGraph ==
    /\ pc = "loaded"
    /\ calls' = Append(calls, "build_graph")
    /\ G' = build_graph(data)
    /\ pc' = "built"
    /\ UNCHANGED <<args, file, data, src, tgt, res, exit, files, hilite,
                   data2, G2, res2>>

\* devices = list(G.nodes()); src = args.source if args.source else
\* devices[0]; tgt = args.target if args.target else devices[-1]
DefaultSource(g, a) == IF a.source # NoArg THEN a.source ELSE g.nodes[1]

DefaultTarget(g, a) == IF a.target # NoArg THEN a.target ELSE Last(g.nodes)

\* devices[0] / devices[-1] of an empty list: IndexError
DefaultsRaise(g, a) ==
    (a.source = NoArg \/ a.target = NoArg) /\ Len(g.nodes) = 0

\* lines 137-139 raising IndexError
PickEndpointsFails ==
    /\ pc = "built"
    /\ DefaultsRaise(G, args)
    /\ pc' = "exited"
    /\ exit' = 1
    /\ UNCHANGED <<args, file, data, G, src, tgt, res, calls, files, hilite,
                   data2, G2, res2>>

\* lines 137-146: the endpoints, then path, cost = compute_shortest_path(...)
ComputeShortestPath ==
    /\ pc = "built"
    /\ ~DefaultsRaise(G, args)
    /\ src' = DefaultSource(G, args)
    /\ tgt' = DefaultTarget(G, args)
    /\ calls' = Append(calls, "compute_shortest_path")
    /\ res' = compute_shortest_path(G, src', tgt')
    /\ IF res'.ret \in {"path", "none"}
       THEN pc' = "pathed" /\ exit' = exit
       ELSE pc' = "exited" /\ exit' = 1
    /\ UNCHANGED <<args, file, data, G, files, hilite, data2, G2, res2>>

\* list(zip(path, path[1:]))
PathEdges(path) == [i \in 1..(Len(path) - 1) |-> <<path[i], path[i + 1]>>]

\* visualize_static(G, path=path, output_file=static_out)
VisualizeStatic ==
    /\ pc = "pathed"
    /\ calls' = Append(calls, "visualize_static")
    /\ hilite' = IF res.ret = "path" /\ Len(res.path) >= 2
                 THEN PathEdges(res.path) ELSE <<>>
    /\ files' = IF args.save_static THEN files \cup {"static"} ELSE files
    /\ pc' = "drawn"
    /\ UNCHANGED <<args, file, data, G, src, tgt, res, exit, data2, G2, res2>>

\* visualize_interactive(G, output_file=args.html_out), and main returns
VisualizeInteractive ==
    /\ pc = "drawn"
    /\ calls' = Append(calls, "visualize_interactive")
    /\ files' = files \cup {"html"}
    /\ pc' = "exited"
    /\ exit' = 0
    /\ UNCHANGED <<args, file, data, G, src, tgt, res, hilite, data2, G2, res2>>

Next ==
    \/ LoadNetwork
    \/ BuildGraphOfList
    \/ BuildGraph
    \/ PickEndpointsFails
    \/ ComputeShortestPath
    \/ VisualizeStatic
    \/ VisualizeInteractive

Spec == Init /\ [][Next]_vars

-----------------------------------------------------------------------------
(* build_graph called on its own, on connection lists in every order *)

Idle ==
    /\ args = NoArgs
    /\ file = NoFile
    /\ G = EmptyGraph
    /\ src = NoArg
    /\ tgt = NoArg
    /\ res = NoResult
    /\ calls = <<>>
    /\ exit = -1
    /\ files = {}
    /\ hilite = <<>>
    /\ G2 = EmptyGraph
    /\ res2 = NoResult

BuildInit ==
    /\ pc = "input"
    /\ \E k \in SUBSET Keys,
          d \in SeqsUpTo(FewNames, MaxDevices),
          c \in SeqsUpTo(Rows(FewNames), MaxConns) :
           data = Object(k, IF "devices" \in k THEN d ELSE <<>>,
                            IF "connections" \in k THEN c ELSE <<>>)
    /\ data2 = NoObject
    /\ Idle

\* G = build_graph(data)
CallBuildGraph ==
    /\ pc = "input"
    /\ G' = build_graph(data)
    /\ pc' = "graph"
    /\ UNCHANGED <<args, file, data, src, tgt, res, calls, exit, files, hilite,
                   data2, G2, res2>>

BuildNext == CallBuildGraph

BuildSpec == BuildInit /\ [][BuildNext]_vars

-----------------------------------------------------------------------------
(* compute_shortest_path called on the graph of a topology *)

\* no device declared, or every name declared
PathDevices == {<<>>, NameOrder}

PathInit ==
    /\ pc = "input"
    /\ \E d \in PathDevices, S \in EdgeSets(Len(Slots)) :
           \E f \in [S -> (-1)..MaxWeight] :
               data = Object(Keys, d, SlotRows(S, f, 1))
    /\ data2 = NoObject
    /\ Idle

\* path, cost = compute_shortest_path(G, s, t)
CallShortestPath ==
    /\ pc = "graph"
    /\ \E s, t \in Names :
        /\ src' = s
        /\ tgt' = t
        /\ res' = compute_shortest_path(G, s, t)
    /\ pc' = "answered"
    /\ UNCHANGED <<args, file, data, G, calls, exit, files, hilite,
                   data2, G2, res2>>

PathNext == CallBuildGraph \/ CallShortestPath

PathSpec == PathInit /\ [][PathNext]_vars

-----------------------------------------------------------------------------
(* The same topology twice, the second time with weights raised *)

MonoInit ==
    /\ pc = "input"
    /\ \E S \in EdgeSets(PairSlots) :
           \E f \in [S -> 0..MaxWeight], r \in [S -> 0..MaxRaise] :
               /\ data = Object(Keys, NameOrder, SlotRows(S, f, 1))
               /\ data2 = Object(Keys, NameOrder,
                                 SlotRows(S, [i \in S |-> f[i] + r[i]], 1))
    /\ Idle

\* G = build_graph(data), for both inputs
CallBuildGraphs ==
    /\ pc = "input"
    /\ G' = build_graph(data)
    /\ G2' = build_graph(data2)
    /\ pc' = "graph"
    /\ UNCHANGED <<args, file, data, src, tgt, res, calls, exit, files, hilite,
                   data2, res2>>

\* path, cost = compute_shortest_path(G, s, t), on both graphs
CallShortestPaths ==
    /\ pc = "graph"
    /\ \E s, t \in Names :
        /\ src' = s
        /\ tgt' = t
        /\ res' = compute_shortest_path(G, s, t)
        /\ res2' = compute_shortest_path(G2, s, t)
    /\ pc' = "answered"
    /\ UNCHANGED <<args, file, data, G, calls, exit, files, hilite, data2, G2>>

MonoNext == CallBuildGraphs \/ CallShortestPaths

MonoSpec == MonoInit /\ [][MonoNext]_vars

-----------------------------------------------------------------------------
(* What the properties speak of *)

NonNegative(g) ==
    \A u \in DOMAIN g.adj : \A i \in 1..Len(g.adj[u]) : g.adj[u][i][2] >= 0

\* node sequences of at most one more node than there are names
NodeSeqs(g) == UNION {[1..k -> DOMAIN g.adj] : k \in 1..(Cardinality(Names) + 1)}

IsWalk(g, p) == \A i \in 1..(Len(p) - 1) : Adjacent(g, p[i], p[i + 1])

\* the walks of G from s to t
Walks(g, s, t) ==
    {p \in NodeSeqs(g) : p[1] = s /\ p[Len(p)] = t /\ IsWalk(g, p)}

Connected(g, s, t) == Walks(g, s, t) # {}

RECURSIVE WalkCost(_, _)
WalkCost(g, p) ==
    IF Len(p) <= 1 THEN 0
    ELSE Weight(g, p[1], p[2]) + WalkCost(g, Tail(p))

\* the rows of a connection list that build_graph does not skip
IsEdgeRow(conn) == Len(conn) >= 2

RowPair(conn) == {conn[1], conn[2]}

RowWeight(conn) == IF Len(conn) >= 3 THEN conn[3] ELSE 1

Occurrences(s, x) == Cardinality({i \in 1..Len(s) : s[i] = x})

NbrEntries(g, u, v) ==
    Cardinality({i \in 1..Len(g.adj[u]) : g.adj[u][i][1] = v})

\* the run was given a file load_network rejects
LoadRejects(f) ==
    \/ ~f.exists
    \/ ~f.valid
    \/ f.shape = "scalar"
    \/ "devices" \notin f.value.keys
    \/ "connections" \notin f.value.keys

Pipeline ==
    <<"load_network", "build_graph", "compute_shortest_path",
      "visualize_static", "visualize_interactive">>

-----------------------------------------------------------------------------
(* Properties *)

\* C1: on a graph with non-negative weights, for source and target both in
\* the graph and connected, compute_shortest_path returns a walk from source
\* to target along edges of the graph, with the sum of its weights as the
\* cost, and no walk from source to target weighs less; devices A, B, C
\* with A-B 2 and B-C 3 give [A, B, C] with cost 5 from A to C.
C1_ShortestPath ==
    /\ (/\ pc = "answered"
        /\ data.devices = <<"A", "B", "C">>
        /\ data.connections = <<<<"A", "B", 2>>, <<"B", "C", 3>>>>
        /\ src = "A" /\ tgt = "C")
       => res = Outcome("path", <<"A", "B", "C">>, 5)
    /\ (/\ pc = "answered"
        /\ NonNegative(G)
        /\ HasNode(G, src) /\ HasNode(G, tgt)
        /\ Connected(G, src, tgt))
       =>
       /\ res.ret = "path"
       /\ Len(res.path) >= 1
       /\ res.path[1] = src
       /\ Last(res.path) = tgt
       /\ IsWalk(G, res.path)
       /\ res.cost = WalkCost(G, res.path)
       /\ \A p \in Walks(G, src, tgt) : res.cost <= WalkCost(G, p)

\* the two-hop path is returned although the endpoints are joined directly
C1_Witness ==
    /\ pc = "answered"
    /\ NonNegative(G)
    /\ res.ret = "path"
    /\ Len(res.path) = 3
    /\ Adjacent(G, src, tgt)
    /\ Weight(G, src, tgt) > res.cost

\* C2: for a node n of the graph, compute_shortest_path(G, n, n) is the
\* path [n] with cost 0, whatever the edges and their weights.
C2_SameNode ==
    (pc = "answered" /\ src = tgt /\ HasNode(G, src))
    => res = Outcome("path", <<src>>, 0)

\* n to n asked on a graph with a self-loop on n and another edge at n
C2_Witness ==
    /\ pc = "answered"
    /\ src = tgt
    /\ HasNode(G, src)
    /\ Adjacent(G, src, src)
    /\ \E v \in DOMAIN G.adj : v # src /\ Adjacent(G, src, v)
    /\ res.ret = "path"

\* C3 (as stated): no result whenever an endpoint is absent or the two lie
\* in different components, a path and a cost in every other case, and
\* never an error.
C3_NoResultIff ==
    pc = "answered"
    => /\ (~HasNode(G, src) \/ ~HasNode(G, tgt)) => res = NoResult
       /\ (HasNode(G, src) /\ HasNode(G, tgt) /\ ~Connected(G, src, tgt))
              => res = NoResult
       /\ (HasNode(G, src) /\ HasNode(G, tgt) /\ Connected(G, src, tgt))
              => res.ret = "path"

\* C3 (amended): the same on graphs whose weights are all non-negative; an
\* absent endpoint gives no result whatever the weights.
C3_NoResultIffNonNegative ==
    pc = "answered"
    => /\ (~HasNode(G, src) \/ ~HasNode(G, tgt)) => res = NoResult
       /\ (/\ NonNegative(G)
           /\ HasNode(G, src) /\ HasNode(G, tgt)
           /\ ~Connected(G, src, tgt))
              => res = NoResult
       /\ (/\ NonNegative(G)
           /\ HasNode(G, src) /\ HasNode(G, tgt)
           /\ Connected(G, src, tgt))
              => res.ret = "path"

\* no result between two nodes of different components, each with an edge
C3_Witness ==
    /\ pc = "answered"
    /\ NonNegative(G)
    /\ HasNode(G, src) /\ HasNode(G, tgt)
    /\ ~Connected(G, src, tgt)
    /\ \E v \in DOMAIN G.adj : v # src /\ Adjacent(G, src, v)
    /\ res = NoResult

\* C4: every declared device is a node of the built graph exactly once.
C4_OneNodePerDevice ==
    pc = "graph"
    => \A d \in Range(Get(data, "devices")) :
           HasNode(G, d) /\ Occurrences(G.nodes, d) = 1

\* a device declared twice and named by a connection as well
C4_Witness ==
    /\ pc = "graph"
    /\ \E d \in Range(Get(data, "devices")) :
        /\ Occurrences(Get(data, "devices"), d) = 2
        /\ \E i \in 1..Len(Get(data, "connections")) :
               d \in Range(Get(data, "connections")[i])
                  /\ IsEdgeRow(Get(data, "connections")[i])

\* C5 (as stated): the edge of every connection [u, v, w] has weight w, and
\* that of every connection [u, v] has weight 1.0.
C5_EveryRowWeight ==
    pc = "graph"
    => \A i \in 1..Len(Get(data, "connections")) :
           LET conn == Get(data, "connections")[i]
           IN  IsEdgeRow(conn)
               => /\ Adjacent(G, conn[1], conn[2])
                  /\ Weight(G, conn[1], conn[2]) = RowWeight(conn)

\* C5 (amended): the same for every connection that no later connection of
\* the list names the pair of.
C5_LastRowWeight ==
    pc = "graph"
    => \A i \in 1..Len(Get(data, "connections")) :
           LET conns == Get(data, "connections")
               conn == conns[i]
           IN  (/\ IsEdgeRow(conn)
                /\ \A j \in (i + 1)..Len(conns) :
                       IsEdgeRow(conns[j]) => RowPair(conns[j]) # RowPair(conn))
               => /\ Adjacent(G, conn[1], conn[2])
                  /\ Weight(G, conn[1], conn[2]) = RowWeight(conn)

\* a connection with a weight and one without, for different pairs
C5_Witness ==
    /\ pc = "graph"
    /\ \E i, j \in 1..Len(Get(data, "connections")) :
        LET conns == Get(data, "connections")
        IN  /\ Len(conns[i]) = 3 /\ conns[i][3] # 1
            /\ Len(conns[j]) = 2
            /\ RowPair(conns[i]) # RowPair(conns[j])
            /\ Weight(G, conns[i][1], conns[i][2]) = conns[i][3]
            /\ Weight(G, conns[j][1], conns[j][2]) = 1

\* C6: a pair named by several connections, in either orientation, has one
\* edge, with the weight of the last of them in list order.
C6_LastDuplicateWins ==
    pc = "graph"
    => \A i, j \in 1..Len(Get(data, "connections")) :
           LET conns == Get(data, "connections")
           IN  (/\ i < j
                /\ IsEdgeRow(conns[i]) /\ IsEdgeRow(conns[j])
                /\ RowPair(conns[i]) = RowPair(conns[j])
                /\ \A k \in (j + 1)..Len(conns) :
                       IsEdgeRow(conns[k]) => RowPair(conns[k]) # RowPair(conns[j]))
               => LET u == conns[j][1]
                      v == conns[j][2]
                  IN  /\ NbrEntries(G, u, v) = 1
                      /\ NbrEntries(G, v, u) = 1
                      /\ Weight(G, u, v) = RowWeight(conns[j])
                      /\ Weight(G, v, u) = RowWeight(conns[j])
                      /\ Cardinality({e \in Edges(G) : e = {u, v}}) = 1

\* [u, v, w] followed by [v, u, w2] with another weight: the edge has w2
C6_Witness ==
    /\ pc = "graph"
    /\ Len(Get(data, "connections")) = 2
    /\ LET c1 == Get(data, "connections")[1]
           c2 == Get(data, "connections")[2]
       IN  /\ Len(c1) = 3 /\ Len(c2) = 3
           /\ c1[1] # c1[2]
           /\ c2[1] = c1[2] /\ c2[2] = c1[1]
           /\ c1[3] # c2[3]
           /\ Weight(G, c1[1], c1[2]) = c2[3]

\* C7: with the same nodes and edges, non-negative weights, and no weight
\* of the first graph above that of the second, the cost of a path found in
\* both is no larger in the first.
C7_CostMonotone ==
    (/\ pc = "answered"
     /\ NonNegative(G) /\ NonNegative(G2)
     /\ G.nodes = G2.nodes
     /\ Edges(G) = Edges(G2)
     /\ \A u \in DOMAIN G.adj : \A i \in 1..Len(G.adj[u]) :
            Weight(G, u, G.adj[u][i][1]) <= Weight(G2, u, G.adj[u][i][1])
     /\ Connected(G, src, tgt))
    => /\ res.ret = "path"
       /\ res2.ret = "path"
       /\ res.cost <= res2.cost

\* the raised weights make the cost larger and move the path
C7_Witness ==
    /\ pc = "answered"
    /\ res.ret = "path" /\ res2.ret = "path"
    /\ Edges(G) = Edges(G2)
    /\ res.cost < res2.cost
    /\ res.path # res2.path

\* C8: a run whose file load_network rejects ends with status 1 having
\* called nothing after load_network: no graph, no path, no output file.
C8_LoadFailureStops ==
    LoadRejects(file)
    => /\ pc \in {"start", "exited"}
       /\ G = EmptyGraph
       /\ res = NoResult
       /\ files = {}
       /\ pc = "exited" => (exit = 1 /\ calls = <<"load_network">>)

\* the run on a file with "devices" but no "connections" has ended
C8_Witness ==
    /\ pc = "exited"
    /\ file.exists /\ file.valid /\ file.shape = "object"
    /\ file.value.keys = {"devices"}
    /\ exit = 1

\* C9: every run whose file (a JSON object, no weight negative)
\* load_network accepts ends with status 0 after
\* build_graph, compute_shortest_path, visualize_static and
\* visualize_interactive, once each in that order; the HTML file is
\* written, the image only with --save-static, and no path is highlighted
\* when the query has no result.
C9_PipelineCompletes ==
    (/\ ~LoadRejects(file)
     /\ file.shape = "object"
     /\ \A i \in 1..Len(file.value.connections) :
            RowWeight(file.value.connections[i]) >= 0
     /\ pc = "exited")
    => /\ exit = 0
       /\ calls = Pipeline
       /\ "html" \in files
       /\ ("static" \in files) = args.save_static
       /\ res.ret = "none" => hilite = <<>>

\* C10: without --source the source is the first declared device, without
\* --target the target is the last declared device.
C10_DefaultEndpoints ==
    (/\ pc \in {"pathed", "drawn", "exited"}
     /\ Len(calls) >= 3
     /\ Len(data.devices) > 0)
    => /\ args.source = NoArg => src = data.devices[1]
       /\ args.target = NoArg => tgt = Last(data.devices)

====
